---------------------------- MODULE Spec2Model ----------------------------
(* A model of dechainer.py: extract_certificates scans a byte buffer for   *)
(* DER certificate envelopes, writes every accepted span to a .der file    *)
(* and optionally asks openssl to convert each to PEM.                     *)
(*                                                                         *)
(* A buffer is kept run-length encoded: a sequence of <<byte, count>>      *)
(* runs, count >= 1.  ByteAt(d, k) is data[k] and BufLen(d) is len(data);  *)
(* the encoding only keeps 10,000-byte certificates small in the state.    *)
EXTENDS Integers, Sequences, FiniteSets, TLC

VARIABLES
    data,             \* the bytes read from the input file (line 42)
    i,                \* the scan cursor (line 48)
    cert_positions,   \* accepted (start, total_size) spans (line 45)
    pc,               \* "scan" | "extract" | "primary" | "fallback" | "done" | "error"
    idx,              \* position in cert_positions of the extraction loop (line 104)
    files,            \* the output directory: file name -> content
    extracted_files,  \* the list returned at line 148
    start_index,      \* parameter (line 13)
    base_name_prefix, \* parameter (line 12)
    convert_to_pem,   \* parameter, after lines 34-38
    attempts,         \* every openssl invocation so far: <<cert idx, mode, outcome>>
    reads,            \* the indexes of data the last scan iteration subscripted
    iters,            \* the number of scan iterations executed so far
    last,             \* the last scan iteration: its cursor and whether it accepted
    run,              \* 1: the run on the input file; 2: a run on one extracted .der
    origin            \* how the input buffer was built (never read by the program)

vars == <<data, i, cert_positions, pc, idx, files, extracted_files, start_index,
          base_name_prefix, convert_to_pem, attempts, reads, iters, last, run,
          origin>>

---------------------------------------------------------------------------
(* Bounds of the model *)

\* longest buffer of the exhaustive family of short buffers
MaxSmall == 5
\* most certificates concatenated into one chain
MaxCerts == 3
\* most filler bytes in front of a single candidate
MaxLead == 1

---------------------------------------------------------------------------
(* Program constants *)

SEQUENCE_TAG == 48
INTEGER_TAG == 2
SHORT_FORM_LIMIT == 128
LONG_FORM_1 == 129
LONG_FORM_2 == 130
LONG_FORM_3 == 131
MIN_CERT_LENGTH == 128
MAX_CERT_LENGTH == 10000
GUARD_MARGIN == 4
DEFAULT_START_INDEX == 3

---------------------------------------------------------------------------
(* Byte buffers *)

Min(a, b) == IF a < b THEN a ELSE b
Max(a, b) == IF a > b THEN a ELSE b

\* n copies of byte b
Rep(b, n) == IF n > 0 THEN << <<b, n>> >> ELSE << >>

\* the buffer holding the bytes of the sequence s
Bytes(s) == [k \in 1..Len(s) |-> <<s[k], 1>>]

RECURSIVE LenFrom(_, _)
LenFrom(d, r) == IF r > Len(d) THEN 0 ELSE d[r][2] + LenFrom(d, r + 1)

\* len(data)
BufLen(d) == LenFrom(d, 1)

RECURSIVE ByteFrom(_, _, _)
ByteFrom(d, r, k) == IF k < d[r][2] THEN d[r][1] ELSE ByteFrom(d, r + 1, k - d[r][2])

\* data[k], for 0 <= k < len(data)
ByteAt(d, k) == ByteFrom(d, 1, k)

RECURSIVE SliceFrom(_, _, _, _)
SliceFrom(d, r, a, b) ==
    IF r > Len(d) \/ b <= 0 THEN << >>
    ELSE LET n  == d[r][2]
             lo == Max(a, 0)
             hi == Min(b, n)
         IN  (IF hi > lo THEN << <<d[r][1], hi - lo>> >> ELSE << >>)
                 \o SliceFrom(d, r + 1, a - n, b - n)

\* data[a:b], for 0 <= a
Slice(d, a, b) == SliceFrom(d, 1, a, b)

---------------------------------------------------------------------------
(* The scan loop, lines 48-100 *)

RECURSIVE GetFrom(_, _, _)
GetFrom(d, r, k) == IF r > Len(d) THEN -1
                    ELSE IF k < d[r][2] THEN d[r][1]
                    ELSE GetFrom(d, r + 1, k - d[r][2])

\* data[k] as the scan subscripts it; -1 stands for the IndexError of an
\* index past the end (the iteration's reads record that it happened)
Get(d, k) == IF k < 0 THEN -1 ELSE GetFrom(d, 1, k)

\* faulty variants of line 49: no margin at all, and a margin far too wide
LoopGuardToEnd(d, pos) == pos < BufLen(d)
LoopGuardWide(d, pos) == pos < BufLen(d) - GUARD_MARGIN - MIN_CERT_LENGTH
\* line 49: while i < len(data) - 4
LoopGuard(d, pos) == pos < BufLen(d) - GUARD_MARGIN

\* lines 52-83: the length field after the tag at pos.  ok is FALSE where the
\* code takes "i += 1; continue"; reads are the indexes it subscripted.
\* (a << 8) | b on bytes is a * 256 + b: the shifted bits do not overlap.
Header(d, pos) ==
    LET length_byte == Get(d, pos + 1)
        none(rd) == [ok |-> FALSE, length |-> 0, header_size |-> 0, reads |-> rd]
    IN  IF length_byte < SHORT_FORM_LIMIT
        THEN [ok |-> TRUE, length |-> length_byte, header_size |-> 2,
              reads |-> {pos + 1}]
        ELSE IF length_byte = LONG_FORM_1
        THEN IF pos + 2 >= BufLen(d) THEN none({pos + 1})
             ELSE [ok |-> TRUE, length |-> Get(d, pos + 2), header_size |-> 3,
                   reads |-> {pos + 1, pos + 2}]
        ELSE IF length_byte = LONG_FORM_2
        THEN IF pos + 3 >= BufLen(d) THEN none({pos + 1})
             ELSE [ok |-> TRUE,
                   length |-> Get(d, pos + 2) * 256 + Get(d, pos + 3),
                   header_size |-> 4,
                   reads |-> {pos + 1, pos + 2, pos + 3}]
        ELSE IF length_byte = LONG_FORM_3
        THEN IF pos + 4 >= BufLen(d) THEN none({pos + 1})
             ELSE [ok |-> TRUE,
                   length |-> Get(d, pos + 2) * 65536 + Get(d, pos + 3) * 256
                                  + Get(d, pos + 4),
                   header_size |-> 5,
                   reads |-> {pos + 1, pos + 2, pos + 3, pos + 4}]
        ELSE none({pos + 1})

\* a faulty variant of line 89: the upper limit taken as exclusive
PlausibleLengthBelow(length) == MIN_CERT_LENGTH <= length /\ length < MAX_CERT_LENGTH
\* line 89: 128 <= length <= 10000
PlausibleLength(length) == MIN_CERT_LENGTH <= length /\ length <= MAX_CERT_LENGTH

\* faulty variants of line 89: the header left out of the extent, only the
\* header required to fit, and the last byte of the buffer never usable
FitsWithoutHeader(d, pos, header_size, length) == pos + length <= BufLen(d)
FitsHeaderOnly(d, pos, header_size, length) == pos + header_size <= BufLen(d)
FitsStrictly(d, pos, header_size, length) == pos + header_size + length < BufLen(d)
\* lines 86, 89: total_size = header_size + length; i + total_size <= len(data)
FitsInBuffer(d, pos, header_size, length) == pos + header_size + length <= BufLen(d)

\* lines 92-94, once lines 89 and 92 (header_size < len(data)) have passed
FollowByteOk(d, pos, header_size) ==
    \/ Get(d, pos + header_size) = SEQUENCE_TAG
    \/ Get(d, pos + header_size) = INTEGER_TAG

\* lines 51-95: one iteration at cursor pos: whether it accepts a span of
\* total_size bytes there, and the indexes of data it subscripts
Iteration(d, pos) ==
    LET tagged  == Get(d, pos) = SEQUENCE_TAG
        h       == Header(d, pos)
        checked == /\ tagged
                   /\ h.ok
                   /\ PlausibleLength(h.length)
                   /\ FitsInBuffer(d, pos, h.header_size, h.length)
                   /\ h.header_size < BufLen(d)
    IN  [accept     |-> checked /\ FollowByteOk(d, pos, h.header_size),
         total_size |-> IF tagged /\ h.ok THEN h.header_size + h.length ELSE 0,
         reads      |-> {pos} \cup (IF tagged THEN h.reads ELSE {})
                              \cup (IF checked THEN {pos + h.header_size} ELSE {})]

\* faulty variants of line 97: a step of one byte, and one byte too many
SkipOneByte(pos, total_size) == pos + 1
SkipOneTooFar(pos, total_size) == pos + total_size + 1
\* line 97: i += total_size
SkipPast(pos, total_size) == pos + total_size

\* lines 49-100: one iteration of the while loop
ScanStep ==
    /\ pc = "scan"
    /\ LoopGuard(data, i)
    /\ LET it     == Iteration(data, i)
           n      == BufLen(data)
           raised == \E k \in it.reads : k < 0 \/ k >= n
       IN  /\ reads' = it.reads
           /\ iters' = iters + 1
           /\ last' = [i |-> i, accepted |-> it.accept /\ ~raised]
           /\ IF raised
              THEN pc' = "error" /\ UNCHANGED <<i, cert_positions>>
              ELSE IF it.accept
              THEN /\ cert_positions' = Append(cert_positions, <<i, it.total_size>>)
                   /\ i' = SkipPast(i, it.total_size)
                   /\ pc' = pc
              ELSE /\ i' = i + 1
                   /\ UNCHANGED <<cert_positions, pc>>
    /\ UNCHANGED <<data, idx, files, extracted_files, start_index,
                   base_name_prefix, convert_to_pem, attempts, run, origin>>

\* line 49 false: the loop ends and the extraction loop of line 104 starts
ScanEnd ==
    /\ pc = "scan"
    /\ ~LoopGuard(data, i)
    /\ pc' = "extract"
    /\ UNCHANGED <<data, i, cert_positions, idx, files, extracted_files,
                   start_index, base_name_prefix, convert_to_pem, attempts,
                   reads, iters, last, run, origin>>

---------------------------------------------------------------------------
(* The extraction loop, lines 104-148 *)

Digits == <<"0", "1", "2", "3", "4", "5", "6", "7", "8", "9">>

RECURSIVE Decimal(_)
Decimal(n) == IF n < 10 THEN Digits[n + 1]
              ELSE Decimal(n \div 10) \o Digits[(n % 10) + 1]

\* str(n) of an int, as the f-string of line 106 formats cert_index
Str(n) == IF n < 0 THEN "-" \o Decimal(0 - n) ELSE Decimal(n)

\* a faulty variant of line 105: the one-based number of line 117
CertIndexOneBased(start, pos) == start + pos + 1
\* line 105: cert_index = start_index + idx
CertIndex(start, pos) == start + pos

\* line 106: base_name = f"{base_name_prefix}{cert_index}"
BaseName(prefix, start, pos) == prefix \o Str(CertIndex(start, pos))

\* line 108 (the directory left out): f"{base_name}.der"
DerFile(prefix, start, pos) == BaseName(prefix, start, pos) \o ".der"

\* line 121 (the directory left out): f"{base_name}.pem"
PemFile(prefix, start, pos) == BaseName(prefix, start, pos) \o ".pem"

\* the output directory after a write of content to the file name
WriteFile(fs, name, content) ==
    [f \in (DOMAIN fs) \cup {name} |-> IF f = name THEN content ELSE fs[f]]

\* lines 104-120: the next span is sliced out and written to its .der file;
\* without convert_to_pem the iteration is over
WriteDer ==
    /\ pc = "extract"
    /\ idx < Len(cert_positions)
    /\ LET start     == cert_positions[idx + 1][1]
           size      == cert_positions[idx + 1][2]
           der_file  == DerFile(base_name_prefix, start_index, idx)
           cert_data == Slice(data, start, start + size)
       IN  /\ files' = WriteFile(files, der_file, cert_data)
           /\ extracted_files' = Append(extracted_files, der_file)
    /\ IF convert_to_pem
       THEN pc' = "primary" /\ idx' = idx
       ELSE pc' = "extract" /\ idx' = idx + 1
    /\ UNCHANGED <<data, i, cert_positions, start_index, base_name_prefix,
                   convert_to_pem, attempts, reads, iters, last, run, origin>>

\* what an openssl invocation can do: exit 0 having written the .pem file,
\* exit non-zero, or subprocess.run raises
Outcomes == {"ok", "nonzero", "raised"}

\* the PEM text openssl writes for a DER file
Pem(der) == <<"PEM", der>>

\* a faulty variant of lines 129-134: no alternate command
AfterPrimaryGiveUp(outcome) == "extract"
\* lines 129-134, 145: after the first command the iteration is over unless
\* it exited non-zero, which leads to the alternate command
AfterPrimary(outcome) == IF outcome = "nonzero" THEN "fallback" ELSE "extract"

\* lines 124-133, 145-146: the command with explicit formats
ConvertPrimary(outcome) ==
    /\ pc = "primary"
    /\ attempts' = Append(attempts, <<idx, "primary", outcome>>)
    /\ LET der_file == DerFile(base_name_prefix, start_index, idx)
           pem_file == PemFile(base_name_prefix, start_index, idx)
       IN  IF outcome = "ok"
           THEN /\ files' = WriteFile(files, pem_file, Pem(files[der_file]))
                /\ extracted_files' = Append(extracted_files, pem_file)
                /\ pc' = "extract" /\ idx' = idx + 1
           ELSE /\ pc' = AfterPrimary(outcome)
                /\ idx' = IF pc' = "extract" THEN idx + 1 ELSE idx
                /\ UNCHANGED <<files, extracted_files>>
    /\ UNCHANGED <<data, i, cert_positions, start_index, base_name_prefix,
                   convert_to_pem, reads, iters, last, run, origin>>

\* lines 134-146: the command that lets openssl detect the format
ConvertFallback(outcome) ==
    /\ pc = "fallback"
    /\ attempts' = Append(attempts, <<idx, "fallback", outcome>>)
    /\ LET der_file == DerFile(base_name_prefix, start_index, idx)
           pem_file == PemFile(base_name_prefix, start_index, idx)
       IN  IF outcome = "ok"
           THEN /\ files' = WriteFile(files, pem_file, Pem(files[der_file]))
                /\ extracted_files' = Append(extracted_files, pem_file)
           ELSE UNCHANGED <<files, extracted_files>>
    /\ pc' = "extract"
    /\ idx' = idx + 1
    /\ UNCHANGED <<data, i, cert_positions, start_index, base_name_prefix,
                   convert_to_pem, reads, iters, last, run, origin>>

\* line 148: the loop is exhausted and the function returns
Return ==
    /\ pc = "extract"
    /\ idx = Len(cert_positions)
    /\ pc' = "done"
    /\ UNCHANGED <<data, i, cert_positions, idx, files, extracted_files,
                   start_index, base_name_prefix, convert_to_pem, attempts,
                   reads, iters, last, run, origin>>

\* the program is run again, on the .der file it wrote for its k-th span,
\* with an empty output directory
Rerun(k) ==
    /\ pc = "done"
    /\ run.pass = 1
    /\ k \in 1..Len(cert_positions)
    /\ data' = files[DerFile(base_name_prefix, start_index, k - 1)]
    /\ run' = [pass |-> 2, span |-> cert_positions[k]]
    /\ i' = 0
    /\ cert_positions' = << >>
    /\ pc' = "scan"
    /\ idx' = 0
    /\ files' = << >>
    /\ extracted_files' = << >>
    /\ attempts' = << >>
    /\ reads' = {}
    /\ iters' = 0
    /\ last' = [i |-> -1, accepted |-> FALSE]
    /\ UNCHANGED <<start_index, base_name_prefix, convert_to_pem, origin>>

---------------------------------------------------------------------------
(* Input files: the bytes line 42 can read *)

\* the bytes the exhaustive family of short buffers is built from
SmallAlphabet == {0, INTEGER_TAG, SEQUENCE_TAG, LONG_FORM_2, LONG_FORM_3}

\* every buffer of at most MaxSmall bytes over SmallAlphabet
SmallInputs ==
    { [family |-> "small", bytes |-> s] :
        s \in UNION { [1..n -> SmallAlphabet] : n \in 0..MaxSmall } }

\* the length field of the given form carrying the given length; form 0 is
\* the single-byte form, LONG_FORM_3 + 1 the unsupported four-byte form
EncodeLength(form, length) ==
    IF form = 0 THEN <<length>>
    ELSE IF form = LONG_FORM_1 THEN <<form, length>>
    ELSE IF form = LONG_FORM_2 THEN <<form, length \div 256, length % 256>>
    ELSE IF form = LONG_FORM_3
    THEN <<form, length \div 65536, (length \div 256) % 256, length % 256>>
    ELSE <<form, 0, length \div 65536, (length \div 256) % 256, length % 256>>

\* a minimal certificate-like blob of 131 bytes: 30 81 80, then follow, then zeros
InnerBlob(follow) ==
    Bytes(<<SEQUENCE_TAG, LONG_FORM_1, MIN_CERT_LENGTH, follow>>)
        \o Rep(0, MIN_CERT_LENGTH - 1)

\* a SEQUENCE with the given length field whose content starts with the byte
\* follow; with inner, the content starts with a whole InnerBlob (as the
\* TBSCertificate of a certificate does), the rest is zeros
Blob(form, length, follow, inner) ==
    Bytes(<<SEQUENCE_TAG>> \o EncodeLength(form, length))
        \o (IF inner
            THEN InnerBlob(INTEGER_TAG) \o Rep(0, length - (MIN_CERT_LENGTH + 3))
            ELSE Bytes(<<follow>>) \o Rep(0, length - 1))

\* the length fields a single candidate is given
CandidateLengths ==
    { <<0, MIN_CERT_LENGTH - 1>>,
      <<LONG_FORM_1, MIN_CERT_LENGTH - 1>>, <<LONG_FORM_1, MIN_CERT_LENGTH>>,
      <<LONG_FORM_1, 255>>,
      <<LONG_FORM_2, MIN_CERT_LENGTH - 1>>, <<LONG_FORM_2, MIN_CERT_LENGTH>>,
      <<LONG_FORM_2, MAX_CERT_LENGTH>>, <<LONG_FORM_2, MAX_CERT_LENGTH + 1>>,
      <<LONG_FORM_3, MIN_CERT_LENGTH - 1>>, <<LONG_FORM_3, MIN_CERT_LENGTH>>,
      <<LONG_FORM_3, MAX_CERT_LENGTH>>, <<LONG_FORM_3, MAX_CERT_LENGTH + 1>>,
      <<LONG_FORM_3 + 1, MIN_CERT_LENGTH>> }

\* one candidate: lead zero bytes, then a blob, with short bytes cut off its end
SingleInputs ==
    { [family |-> "single", lead |-> ld, form |-> fl[1], length |-> fl[2],
       follow |-> fo, short |-> sh] :
        ld \in 0..MaxLead, fl \in CandidateLengths,
        fo \in {SEQUENCE_TAG, INTEGER_TAG, 0}, sh \in {0, 1} }

\* the long candidates are tried whole, with no lead and a good follow-byte
\* only: a rejected one costs the scan 10,000 iterations
SingleInputsKept ==
    { o \in SingleInputs :
        o.length >= MAX_CERT_LENGTH =>
            o.lead = 0 /\ o.follow = SEQUENCE_TAG /\ o.short = 0 }

\* the pieces a chain is concatenated from: three valid certificates (the
\* third with a blob inside) and three bytes that are no certificate
PieceKinds ==
    { [cert |-> TRUE, form |-> LONG_FORM_1, length |-> MIN_CERT_LENGTH,
       follow |-> SEQUENCE_TAG, inner |-> FALSE],
      [cert |-> TRUE, form |-> LONG_FORM_1, length |-> MIN_CERT_LENGTH,
       follow |-> INTEGER_TAG, inner |-> FALSE],
      [cert |-> TRUE, form |-> LONG_FORM_1, length |-> 200,
       follow |-> SEQUENCE_TAG, inner |-> TRUE],
      [cert |-> FALSE, form |-> LONG_FORM_3 + 1, length |-> 0,
       follow |-> 0, inner |-> FALSE] }

Piece(k) == IF k.cert THEN Blob(k.form, k.length, k.follow, k.inner)
            ELSE Bytes(<<SEQUENCE_TAG, k.form, k.follow>>)

PieceSize(k) == BufLen(Piece(k))

\* how many bytes are cut off the end of a chain's last piece
Cuts == {0, 1, 69, 70}

\* what follows a chain that is not cut: nothing, or a tag with a length
\* field that is truncated, complete or unsupported
Tails == { << >>, <<SEQUENCE_TAG>>, <<SEQUENCE_TAG, LONG_FORM_1>>,
           <<SEQUENCE_TAG, LONG_FORM_2, 1>>,
           <<SEQUENCE_TAG, LONG_FORM_3, 0, 1>>,
           <<SEQUENCE_TAG, LONG_FORM_3, 0, 0, MIN_CERT_LENGTH>>,
           <<SEQUENCE_TAG, LONG_FORM_3 + 1, 0, 0, 0, MIN_CERT_LENGTH>> }

\* up to MaxCerts pieces back to back, the last one cut, or a tail after them
ChainInputs ==
    { [family |-> "chain", kinds |-> ks, cut |-> c, tail |-> t] :
        ks \in UNION { [1..n -> PieceKinds] : n \in 0..MaxCerts },
        c \in Cuts, t \in Tails }

ChainInputsKept ==
    { o \in ChainInputs :
        /\ o.cut > 0 => /\ o.tail = << >>
                        /\ Len(o.kinds) > 0
                        /\ o.kinds[Len(o.kinds)].cert
                        /\ o.cut < PieceSize(o.kinds[Len(o.kinds)]) }

RECURSIVE Concat(_, _)
Concat(ks, n) == IF n = 0 THEN << >> ELSE Concat(ks, n - 1) \o Piece(ks[n])

\* the file contents an input description stands for
BufferOf(o) ==
    IF o.family = "small" THEN Bytes(o.bytes)
    ELSE IF o.family = "single"
    THEN LET whole == Rep(0, o.lead) \o Blob(o.form, o.length, o.follow, FALSE)
         IN  Slice(whole, 0, BufLen(whole) - o.short)
    ELSE LET whole == Concat(o.kinds, Len(o.kinds))
         IN  Slice(whole, 0, BufLen(whole) - o.cut) \o Bytes(o.tail)

\* the state at line 48, on an input file described by o
Start(o, prefix, start, pem) ==
    /\ origin = o
    /\ data = BufferOf(o)
    /\ i = 0
    /\ cert_positions = << >>
    /\ pc = "scan"
    /\ idx = 0
    /\ files = << >>
    /\ extracted_files = << >>
    /\ start_index = start
    /\ base_name_prefix = prefix
    /\ convert_to_pem = pem
    /\ attempts = << >>
    /\ reads = {}
    /\ iters = 0
    /\ last = [i |-> -1, accepted |-> FALSE]
    /\ run = [pass |-> 1, span |-> << >>]

---------------------------------------------------------------------------
(* Runs without --pem, on every input; each extracted file can be fed back *)

Inputs == SmallInputs \cup SingleInputsKept \cup ChainInputsKept

Init == \E o \in Inputs : Start(o, "intel-int", DEFAULT_START_INDEX, FALSE)

Next ==
    \/ ScanStep
    \/ ScanEnd
    \/ WriteDer
    \/ Return
    \/ \E k \in 1..MaxCerts + 1 : Rerun(k)

Spec == Init /\ [][Next]_vars

---------------------------------------------------------------------------
(* Runs with and without --pem, on chains of whole minimal certificates *)

StartIndexes == {DEFAULT_START_INDEX, 8}

PemInputs ==
    { o \in ChainInputsKept :
        /\ o.cut = 0
        /\ o.tail = << >>
        /\ \A k \in 1..Len(o.kinds) : o.kinds[k].cert /\ ~o.kinds[k].inner }

InitPem ==
    \E o \in PemInputs, start \in StartIndexes, pem \in BOOLEAN :
        Start(o, "prefix", start, pem)

NextPem ==
    \/ ScanStep
    \/ ScanEnd
    \/ WriteDer
    \/ \E outcome \in Outcomes : ConvertPrimary(outcome)
    \/ \E outcome \in Outcomes : ConvertFallback(outcome)
    \/ Return

SpecPem == InitPem /\ [][NextPem]_vars

---------------------------------------------------------------------------
(* Properties *)

\* the spans accepted so far
Spans == {cert_positions[k] : k \in 1..Len(cert_positions)}

\* the end of the buffer cuts off index k
PastEnd(k) == k >= BufLen(data)

\* C1: every span appended to cert_positions lies inside the buffer:
\* start >= 0 and start + total_size <= len(buffer).
C1_SpansInBounds ==
    \A sp \in Spans : sp[1] >= 0 /\ sp[1] + sp[2] <= BufLen(data)

\* a span that starts after the first byte and ends on the last byte is accepted
C1_Witness ==
    \E sp \in Spans : sp[1] > 0 /\ sp[1] + sp[2] = BufLen(data)

\* C2: in every state the spans are in strictly increasing start order,
\* consecutive spans do not overlap, and the cursor is not before the end of
\* the last accepted span.
C2_OrderedDisjoint ==
    /\ \A k \in 1..Len(cert_positions) - 1 :
          /\ cert_positions[k][1] < cert_positions[k + 1][1]
          /\ cert_positions[k][1] + cert_positions[k][2] <= cert_positions[k + 1][1]
    /\ Len(cert_positions) > 0 =>
          i >= cert_positions[Len(cert_positions)][1]
                 + cert_positions[Len(cert_positions)][2]

\* a finished scan that accepted three spans
C2_Witness == pc = "done" /\ Len(cert_positions) >= 3

\* C3: every index a scan iteration subscripts is inside the buffer, so the
\* scan never raises; an iteration on a 0x30 tag whose length field is
\* truncated or of an unsupported form accepts nothing and moves the cursor
\* by one byte.
C3_ReadsInRange ==
    /\ pc # "error"
    /\ \A k \in reads : 0 <= k /\ k < BufLen(data)
    /\ (/\ last.i >= 0
        /\ ByteAt(data, last.i) = 48
        /\ \/ PastEnd(last.i + 1)
           \/ ByteAt(data, last.i + 1) >= 132
           \/ ByteAt(data, last.i + 1) = 129 /\ PastEnd(last.i + 2)
           \/ ByteAt(data, last.i + 1) = 130 /\ PastEnd(last.i + 3)
           \/ ByteAt(data, last.i + 1) = 131 /\ PastEnd(last.i + 4))
       => /\ ~last.accepted
          /\ i = last.i + 1
          /\ \A sp \in Spans : sp[1] # last.i

\* a scan is over whose buffer ends in the truncated length field 30 83 and
\* whose last iteration subscripted the last byte
C3_Witness ==
    /\ pc = "done"
    /\ BufLen(data) >= 5
    /\ ByteAt(data, BufLen(data) - 2) = 48
    /\ ByteAt(data, BufLen(data) - 1) = 131
    /\ BufLen(data) - 1 \in reads

\* C4: the program run on the bytes of one span it accepted finds exactly
\* one span there, (0, n), covering the whole of that buffer.
C4_Idempotent ==
    run.pass = 2 /\ pc \in {"extract", "done"} =>
        /\ BufLen(data) = run.span[2]
        /\ cert_positions = << <<0, run.span[2]>> >>

\* the second run is over, on a span that did not start the first buffer
C4_Witness == run.pass = 2 /\ pc = "done" /\ run.span[1] > 0

\* the value of the n bytes from index p on, big-endian
RECURSIVE BigEndian(_, _)
BigEndian(p, n) ==
    IF n = 0 THEN 0 ELSE BigEndian(p, n - 1) * 256 + ByteAt(data, p + n - 1)

\* the length field after a tag at index p, as the four encodings define it:
\* a byte below 128 is the length; 0x81, 0x82, 0x83 announce 1, 2, 3 length
\* bytes; size counts the tag and the field
LengthField(p) ==
    LET m == ByteAt(data, p + 1)
    IN  IF PastEnd(p + 1) THEN [supported |-> FALSE, size |-> 0, length |-> 0]
        ELSE IF m < 128 THEN [supported |-> TRUE, size |-> 2, length |-> m]
        ELSE IF m \in {129, 130, 131} /\ ~PastEnd(p + m - 127)
        THEN [supported |-> TRUE, size |-> m - 126,
              length |-> BigEndian(p + 2, m - 128)]
        ELSE [supported |-> FALSE, size |-> 0, length |-> 0]

\* C5: an iteration on a 0x30 tag with a supported length field, a follow-byte
\* 0x30 or 0x02 and a claimed extent inside the buffer accepts the span if and
\* only if 128 <= length <= 10000.
C5_Window ==
    LET f == LengthField(last.i)
    IN  (/\ last.i >= 0
         /\ ByteAt(data, last.i) = 48
         /\ f.supported
         /\ last.i + f.size + f.length <= BufLen(data)
         /\ ~PastEnd(last.i + f.size)
         /\ ByteAt(data, last.i + f.size) \in {48, 2})
        => ((128 <= f.length /\ f.length <= 10000)
              <=> (last.accepted /\ <<last.i, f.size + f.length>> \in Spans))

\* a certificate of length 10000 under the three-byte long form is accepted
C5_Witness ==
    /\ run.pass = 1
    /\ origin.family = "single"
    /\ origin.form = 131
    /\ origin.length = 10000
    /\ last.accepted

\* the first three pieces of the input are certificates, the third cut short
TruncatedThird ==
    /\ run.pass = 1
    /\ origin.family = "chain"
    /\ Len(origin.kinds) = 3
    /\ \A k \in 1..3 : origin.kinds[k].cert
    /\ origin.cut > 0

\* the bytes left of the third piece
Remaining == PieceSize(origin.kinds[3]) - origin.cut

\* exactly the first two certificates are found, and nothing from the start
\* of the third on
OnlyFirstTwo ==
    LET n1 == PieceSize(origin.kinds[1])
        n2 == PieceSize(origin.kinds[2])
    IN  /\ \A sp \in Spans : sp[1] < n1 + n2
        /\ pc \in {"extract", "done"} => cert_positions = << <<0, n1>>, <<n1, n2>> >>

\* C7 as claimed: three certificates back to back, the last truncated, give
\* exactly the first two spans and no span at or after the start of the
\* truncated one, whatever its remaining bytes are.
C7_Original == TruncatedThird => OnlyFirstTwo

\* C7, amended: the same, provided fewer than 134 bytes of the truncated
\* certificate remain.
C7_TruncatedLast == TruncatedThird /\ Remaining < 134 => OnlyFirstTwo

\* such a scan is over, and it did examine the tag of the truncated certificate
C7_Witness ==
    /\ TruncatedThird
    /\ Remaining = 133
    /\ pc = "done"
    /\ Len(cert_positions) = 2

\* C9: every iteration moves the cursor forward: by the whole extent of the
\* span when it appends one, by one byte otherwise; the iterations of a scan
\* never outnumber the bytes of the buffer.
C9_Progress ==
    /\ iters <= BufLen(data)
    /\ last.i >= 0 =>
          /\ i > last.i
          /\ IF \E sp \in Spans : sp[1] = last.i
             THEN /\ last.accepted
                  /\ i = last.i + LengthField(last.i).size + LengthField(last.i).length
             ELSE /\ ~last.accepted
                  /\ i = last.i + 1

\* a scan is over that made both kinds of step
C9_Witness ==
    /\ pc = "done"
    /\ run.pass = 1
    /\ Len(cert_positions) >= 2
    /\ iters > Len(cert_positions)

\* the acceptance test of the scan at index p, made wherever its subscripts
\* are inside the buffer: what a scan bounded only by the buffer end decides
WouldAccept(d, p) ==
    /\ Iteration(d, p).accept
    /\ \A k \in Iteration(d, p).reads : 0 <= k /\ k < BufLen(d)

\* C10 as claimed: some buffer (an input of the model, the one being scanned
\* included) has an offset i >= len(buffer) - 4, which the scan never
\* examines, where a candidate passing all five acceptance conditions starts.
C10_Original ==
    \E o \in Inputs \cup {origin} :
        \E p \in Max(0, BufLen(BufferOf(o)) - 4)..BufLen(BufferOf(o)) - 1 :
            WouldAccept(BufferOf(o), p)

\* C10, amended: no offset i >= len(buffer) - 4, and no offset a finished
\* scan left unexamined, starts a candidate that passes the acceptance
\* conditions: the termination condition costs no certificate.  (Stated of
\* the states where a scan starts and where it has just ended.)
C10_NothingMissed ==
    LET from == IF pc = "scan" THEN BufLen(data) - 4
                ELSE Min(i, BufLen(data) - 4)
    IN  (iters = 0 \/ (pc = "extract" /\ idx = 0)) =>
            \A p \in Max(0, from)..BufLen(data) - 1 : ~WouldAccept(data, p)

\* a scan is over on a buffer whose last four bytes 30 02 30 00 are a
\* short-form candidate that fits and has a good follow-byte
C10_Witness ==
    /\ pc = "extract"
    /\ iters > 0
    /\ BufLen(data) >= 5
    /\ ByteAt(data, BufLen(data) - 4) = 48
    /\ ByteAt(data, BufLen(data) - 3) = 2
    /\ ByteAt(data, BufLen(data) - 2) = 48

\* the names the claim gives the artifacts of a run with prefix "prefix"
ExpectedNames ==
    IF start_index = 3 THEN <<"prefix3", "prefix4", "prefix5", "prefix6">>
    ELSE <<"prefix8", "prefix9", "prefix10", "prefix11">>

\* the input is k blobs 30 81 80 30 ... of 131 bytes, back to back
BackToBack ==
    /\ origin.family = "chain"
    /\ origin.cut = 0
    /\ origin.tail = << >>
    /\ Len(origin.kinds) <= 4
    /\ \A k \in 1..Len(origin.kinds) :
          /\ origin.kinds[k].cert
          /\ ~origin.kinds[k].inner
          /\ origin.kinds[k].form = 129
          /\ origin.kinds[k].length = 128
          /\ origin.kinds[k].follow = 48
    /\ base_name_prefix = "prefix"
    /\ start_index \in {3, 8}

\* how many .der files the extraction loop has written
Written == IF pc \in {"primary", "fallback"} THEN idx + 1 ELSE idx

\* C6: k back-to-back blobs of 131 bytes give exactly the k spans
\* (131 * j, 131), j = 0..k-1, and the j-th artifact written holds the bytes
\* of the j-th span under the name prefix followed by the decimal digits of
\* start_index + j.
C6_BackToBack ==
    BackToBack =>
        LET k   == Len(origin.kinds)
            der == [j \in 1..4 |-> ExpectedNames[j] \o ".der"]
            pem == {ExpectedNames[j] \o ".pem" : j \in 1..4}
        IN  /\ pc # "scan" =>
                 cert_positions = [j \in 1..k |-> <<131 * (j - 1), 131>>]
            /\ DOMAIN files \subseteq {der[j] : j \in 1..Written} \cup pem
            /\ \A j \in 1..Written :
                  /\ der[j] \in DOMAIN files
                  /\ files[der[j]] = Slice(data, 131 * (j - 1), 131 * j)
            /\ SelectSeq(extracted_files, LAMBDA f : f \notin pem)
                  = [j \in 1..Written |-> der[j]]

\* three blobs, start_index 3: prefix3.der, prefix4.der, prefix5.der are written
C6_Witness ==
    /\ BackToBack
    /\ pc = "done"
    /\ start_index = 3
    /\ Len(cert_positions) = 3
    /\ {"prefix3.der", "prefix4.der", "prefix5.der"} \subseteq DOMAIN files

\* how many times openssl was run in the given mode for certificate j
Count(j, mode) ==
    Cardinality({n \in 1..Len(attempts) :
                    attempts[n][1] = j /\ attempts[n][2] = mode})

\* how the primary command for certificate j ended
PrimaryOutcome(j) ==
    attempts[CHOOSE n \in 1..Len(attempts) :
                 attempts[n][1] = j /\ attempts[n][2] = "primary"][3]

\* the conversion protocol, where fallbackAfter are the outcomes of the
\* primary command after which the fallback is run
Protocol(fallbackAfter) ==
    convert_to_pem =>
        /\ pc # "error"
        /\ pc = "done" => idx = Len(cert_positions)
        /\ \A n \in 1..Len(attempts) :
              attempts[n][2] = "fallback" =>
                  /\ n > 1
                  /\ attempts[n - 1][1] = attempts[n][1]
                  /\ attempts[n - 1][2] = "primary"
        /\ \A j \in 0..Len(cert_positions) - 1 :
              /\ j < idx =>
                    /\ DerFile(base_name_prefix, start_index, j) \in DOMAIN files
                    /\ Count(j, "primary") = 1
                    /\ Count(j, "fallback")
                          = IF PrimaryOutcome(j) \in fallbackAfter THEN 1 ELSE 0
              /\ j > idx => Count(j, "primary") = 0 /\ Count(j, "fallback") = 0

\* C8 as claimed: for every certificate the primary command runs first and
\* once; whenever it fails, by a non-zero exit or by raising, exactly one
\* fallback command runs; no failure stops the loop: every span gets its
\* .der file and its own attempt.
C8_Original == Protocol({"nonzero", "raised"})

\* C8, amended: the fallback runs exactly once when the primary command
\* exits non-zero, and not at all when running it raises.
C8_Protocol == Protocol({"nonzero"})

\* both commands failed for the first certificate and the later ones were
\* still converted
C8_Witness ==
    /\ convert_to_pem
    /\ pc = "done"
    /\ Len(cert_positions) >= 2
    /\ Len(attempts) >= 3
    /\ attempts[1] = <<0, "primary", "nonzero">>
    /\ attempts[2] = <<0, "fallback", "nonzero">>
    /\ Count(1, "primary") = 1

====
